---- MODULE Spec2Model ----
(***************************************************************************)
(* The pre-training loop of train_pretrain.py: train_epoch (gradient       *)
(* accumulation, mixed-precision update protocol, cosine learning-rate     *)
(* schedule, rank-gated logging and checkpointing) driven by the epoch     *)
(* loop of __main__, for a single process or a DDP group of processes.     *)
(*                                                                         *)
(* Floating-point quantities are fixed-point integers: One stands for 1.0  *)
(* in the schedule, learning rates are in units of 1e-7.                   *)
(***************************************************************************)
EXTENDS Integers, Sequences, FiniteSets, TLC

\* ------------------------------------------------------------------ bounds
MaxEpochs == 2
MaxIter == 3
MaxAcc == 2
MaxLog == 2
MaxSave == 2
\* bounds of the multi-process runs
MaxWorld == 2
MaxDistEpochs == 1
MaxDistIter == 2
MaxDistInterval == 2
\* bounds of the batches of the loss normalisation
MaxTokens == 3
MaxTokenLoss == 2
\* bounds of the loss scaling: mantissa width of the floating-point format,
\* largest accumulation_steps
MantissaBits == 5
MaxScaleAcc == 3
\* bounds of the sampler: dataset size, number of replicas
MaxDataset == 4
MaxReplicas == 2

\* --------------------------------------------------- fixed-point arithmetic
\* 1.0 of "1 + math.cos(...)" in fixed point
One == 10000
\* math.pi in the same fixed point
Pi == 31416

\* cos(x) for 0 <= x <= pi/2 (x in fixed point): the Taylor polynomial
\* 1 - x^2/2! + x^4/4! - x^6/6! + x^8/8! - x^10/10!
CosQ(x) ==
    LET x2 == (x * x) \div One
        t1 == (One * x2) \div (2 * One)
        t2 == (t1 * x2) \div (12 * One)
        t3 == (t2 * x2) \div (30 * One)
        t4 == (t3 * x2) \div (56 * One)
        t5 == (t4 * x2) \div (90 * One)
    IN  One - t1 + t2 - t3 + t4 - t5

\* math.cos(math.pi * current_step / total_steps) for 0 <= current_step <= total_steps,
\* reduced to the first quadrant by cos(pi - x) = -cos(x)
Cos(current_step, total_steps) ==
    IF 2 * current_step <= total_steps
    THEN CosQ((Pi * current_step) \div total_steps)
    ELSE 0 - CosQ((Pi * (total_steps - current_step)) \div total_steps)

\* get_lr: lr / 10 + 0.5 * lr * (1 + cos(pi * current_step / total_steps))
get_lr(current_step, total_steps, lr) ==
    (lr \div 10) + ((lr * (One + Cos(current_step, total_steps))) \div (2 * One))

\* --------------------------------------------------------------- inputs
\* --learning_rate values (units of 1e-7; 5000 is the default 5e-4)
LearningRates == {5000}

\* process layouts the launcher may create: <<number of nodes, processes per node>>
Layouts == {l \in (1..MaxWorld) \X (1..MaxWorld) : l[1] * l[2] <= MaxWorld}

\* ------------------------------------------------------------------ state
VARIABLES
    args,            \* parsed command line (read-only after start-up)
    iter_per_epoch,  \* len(train_loader)
    ddp,             \* RANK is set in the environment
    env,             \* per process: RANK and LOCAL_RANK of the launcher
    wandb,           \* per process: the tracker module, or "None"
    pc,              \* per process: the statement of train_epoch about to run
    epoch,           \* per process: loop variable of __main__
    step,            \* per process: loop variable of train_epoch
    param_groups,    \* per process: optimizer.param_groups, the 'lr' of each group
    grad,            \* per process: backward calls summed into .grad since zero_grad
    unscaled,        \* per process: scaler.unscale_ was applied to the current grads
    params,          \* per process: model parameters, as the number of updates applied
    training,        \* per process: model.training
    ckpt,            \* the checkpoint file of the shared save_dir
    writes,          \* per process: number of torch.save calls made
    logs,            \* per process: <<epoch, step>> of every line printed
    records,         \* per process: <<epoch, step>> of every wandb.log record
    ops,             \* per process: operations run so far in the current micro-step
    batch,           \* a batch and its re-padded twin, for the loss normalisation
    scaled,          \* a loss on its way from line 73 to the log line
    sampler          \* the DistributedSampler: dataset, permutation, shard of each rank

vars == <<args, iter_per_epoch, ddp, env, wandb, pc, epoch, step, param_groups,
          grad, unscaled, params, training, ckpt, writes, logs, records, ops, batch,
          scaled, sampler>>

\* the state of the training loop
loop == <<args, iter_per_epoch, ddp, env, wandb, pc, epoch, step, param_groups,
          grad, unscaled, params, training, ckpt, writes, logs, records, ops>>

config == <<args, iter_per_epoch, ddp, env, wandb, batch, scaled, sampler>>

Procs == DOMAIN env

\* dist.get_rank()
get_rank(p) == env[p].RANK

\* the reporting test without the rank comparison
is_any_process(p) == TRUE

\* "not ddp or dist.get_rank() == 0"
is_main_process(p) == (~ddp) \/ get_rank(p) = 0

\* number of parameter groups of optim.AdamW(model.parameters(), lr=...)
NumParamGroups == 1

\* the command lines considered
ArgsSet ==
    [epochs : 1..MaxEpochs,
     accumulation_steps : 1..MaxAcc,
     log_interval : 1..MaxLog,
     save_interval : 1..MaxSave,
     learning_rate : LearningRates,
     use_wandb : BOOLEAN]

\* the command lines considered for multi-process runs
DistArgsSet ==
    [epochs : 1..MaxDistEpochs,
     accumulation_steps : 1..MaxDistInterval,
     log_interval : 1..MaxDistInterval,
     save_interval : 1..MaxDistInterval,
     learning_rate : LearningRates,
     use_wandb : BOOLEAN]

\* environments: no RANK (a plain run), or the ranks of a launcher layout
EnvOf(isDdp, layout) ==
    IF isDdp
    THEN [p \in 0..(layout[1] * layout[2] - 1) |->
            [RANK |-> p, LOCAL_RANK |-> p % layout[2]]]
    ELSE [p \in {0} |-> [RANK |-> -1, LOCAL_RANK |-> 0]]

\* "if args.use_wandb and (not ddp or ddp_local_rank == 0): import wandb ... else None"
init_wandb(a, isDdp, e) ==
    [p \in DOMAIN e |->
        IF a.use_wandb /\ ((~isDdp) \/ e[p].LOCAL_RANK = 0) THEN "wandb" ELSE "None"]

InitWith(a, n, isDdp, e) ==
    /\ args = a
    /\ iter_per_epoch = n
    /\ ddp = isDdp
    /\ env = e
    /\ wandb = init_wandb(a, isDdp, e)
    /\ pc = [p \in DOMAIN e |-> "set_lr"]
    /\ epoch = [p \in DOMAIN e |-> 0]
    /\ step = [p \in DOMAIN e |-> 0]
    /\ param_groups = [p \in DOMAIN e |-> [i \in 1..NumParamGroups |-> a.learning_rate]]
    /\ grad = [p \in DOMAIN e |-> 0]
    /\ unscaled = [p \in DOMAIN e |-> FALSE]
    /\ params = [p \in DOMAIN e |-> 0]
    /\ training = [p \in DOMAIN e |-> TRUE]
    /\ ckpt = [exists |-> FALSE, complete |-> FALSE, state_dict |-> 0, writers |-> {}]
    /\ writes = [p \in DOMAIN e |-> 0]
    /\ logs = [p \in DOMAIN e |-> {}]
    /\ records = [p \in DOMAIN e |-> {}]
    /\ ops = [p \in DOMAIN e |-> <<>>]

\* no batch under inspection
NoBatch == [loss |-> <<>>, padded |-> <<>>, loss_mask |-> <<>>, out |-> <<>>]

\* no loss under inspection
NoLoss == [stage |-> "none"]

\* no sampler under inspection
NoSampler == [stage |-> "none"]

\* a run of one process: started plainly, or by the launcher with a world of one
Init ==
    /\ batch = NoBatch
    /\ scaled = NoLoss
    /\ sampler = NoSampler
    /\ \E a \in ArgsSet, n \in 1..MaxIter, isDdp \in BOOLEAN :
          InitWith(a, n, isDdp, EnvOf(isDdp, <<1, 1>>))

\* a run under any launch mode: plain, or one process per rank of a launcher layout
InitDist ==
    /\ batch = NoBatch
    /\ scaled = NoLoss
    /\ sampler = NoSampler
    /\ \E a \in DistArgsSet, n \in 1..MaxDistIter :
          \/ InitWith(a, n, FALSE, EnvOf(FALSE, <<1, 1>>))
          \/ \E layout \in Layouts : InitWith(a, n, TRUE, EnvOf(TRUE, layout))

\* ------------------------------------------------------- control flow
\* the boundary test written on step instead of step + 1
at_accumulation_boundary_on_step(p) == step[p] % args.accumulation_steps = 0

\* "if (step + 1) % args.accumulation_steps == 0"
at_accumulation_boundary(p) == (step[p] + 1) % args.accumulation_steps = 0

\* "if step % args.log_interval == 0"
at_log_interval(p) == step[p] % args.log_interval = 0

\* the save test without the rank gate
at_save_interval_any_rank(p) == (step[p] + 1) % args.save_interval = 0

\* "if (step + 1) % args.save_interval == 0 and (not ddp or dist.get_rank() == 0)"
at_save_interval(p) == (step[p] + 1) % args.save_interval = 0 /\ is_main_process(p)

\* the statement that follows the logging block
AfterLog(p) == IF at_save_interval(p) THEN "eval" ELSE "next"

\* the statement that follows the update block
AfterUpdate(p) == IF at_log_interval(p) THEN "log" ELSE AfterLog(p)

\* the statement that follows scaler.scale(loss).backward()
AfterBackward(p) == IF at_accumulation_boundary(p) THEN "unscale" ELSE AfterUpdate(p)

\* the schedule position taken from the step of the current epoch alone
global_step_within_epoch(p) == step[p]

\* epoch * iter_per_epoch + step
global_step(p) == epoch[p] * iter_per_epoch + step[p]

\* args.epochs * iter_per_epoch
total_steps == args.epochs * iter_per_epoch

\* ---------------------------------------------------------------- actions
\* lr = get_lr(...); for param_group in optimizer.param_groups: param_group['lr'] = lr
SetLr(p) ==
    /\ pc[p] = "set_lr"
    /\ LET lr == get_lr(global_step(p), total_steps, args.learning_rate)
       IN  param_groups' = [param_groups EXCEPT ![p] = [i \in 1..NumParamGroups |-> lr]]
    /\ ops' = [ops EXCEPT ![p] = Append(@, "set_lr")]
    /\ pc' = [pc EXCEPT ![p] = "forward"]
    /\ UNCHANGED <<config, epoch, step, grad, unscaled, params, training, ckpt,
                   writes, logs, records>>

\* with ctx: res = model(X); loss = ...
Forward(p) ==
    /\ pc[p] = "forward"
    /\ ops' = [ops EXCEPT ![p] = Append(@, "forward")]
    /\ pc' = [pc EXCEPT ![p] = "backward"]
    /\ UNCHANGED <<config, epoch, step, param_groups, grad, unscaled, params, training,
                   ckpt, writes, logs, records>>

\* scaler.scale(loss).backward(): every process adds one micro-batch gradient to
\* .grad; under DDP the backward call is the collective gradient synchronisation,
\* which returns once every rank has entered it
Backward ==
    /\ \A p \in Procs : pc[p] = "backward"
    /\ grad' = [p \in Procs |-> grad[p] + 1]
    /\ ops' = [p \in Procs |-> Append(ops[p], "backward")]
    /\ pc' = [p \in Procs |-> AfterBackward(p)]
    /\ UNCHANGED <<config, epoch, step, param_groups, unscaled, params, training, ckpt,
                   writes, logs, records>>

\* scaler.unscale_(optimizer)
Unscale(p) ==
    /\ pc[p] = "unscale"
    /\ unscaled' = [unscaled EXCEPT ![p] = TRUE]
    /\ ops' = [ops EXCEPT ![p] = Append(@, "unscale")]
    /\ pc' = [pc EXCEPT ![p] = "clip"]
    /\ UNCHANGED <<config, epoch, step, param_groups, grad, params, training, ckpt,
                   writes, logs, records>>

\* clipping that rescales the parameter tensors instead of their gradients
Clip_on_parameters(p) ==
    /\ pc[p] = "clip"
    /\ params' = [params EXCEPT ![p] = @ + 1]
    /\ ops' = [ops EXCEPT ![p] = Append(@, "clip")]
    /\ pc' = [pc EXCEPT ![p] = "step"]
    /\ UNCHANGED <<config, epoch, step, param_groups, grad, unscaled, training,
                   ckpt, writes, logs, records>>

\* torch.nn.utils.clip_grad_norm_(model.parameters(), args.grad_clip)
Clip(p) ==
    /\ pc[p] = "clip"
    /\ ops' = [ops EXCEPT ![p] = Append(@, "clip")]
    /\ pc' = [pc EXCEPT ![p] = "step"]
    /\ UNCHANGED <<config, epoch, step, param_groups, grad, unscaled, params, training,
                   ckpt, writes, logs, records>>

\* scaler.step(optimizer): the optimizer applies the accumulated gradient
ScalerStep(p) ==
    /\ pc[p] = "step"
    /\ params' = [params EXCEPT ![p] = @ + 1]
    /\ ops' = [ops EXCEPT ![p] = Append(@, "step")]
    /\ pc' = [pc EXCEPT ![p] = "update"]
    /\ UNCHANGED <<config, epoch, step, param_groups, grad, unscaled, training, ckpt,
                   writes, logs, records>>

\* scaler.update()
ScalerUpdate(p) ==
    /\ pc[p] = "update"
    /\ ops' = [ops EXCEPT ![p] = Append(@, "update")]
    /\ pc' = [pc EXCEPT ![p] = "zero_grad"]
    /\ UNCHANGED <<config, epoch, step, param_groups, grad, unscaled, params, training,
                   ckpt, writes, logs, records>>

\* optimizer.zero_grad(set_to_none=True)
ZeroGrad(p) ==
    /\ pc[p] = "zero_grad"
    /\ grad' = [grad EXCEPT ![p] = 0]
    /\ unscaled' = [unscaled EXCEPT ![p] = FALSE]
    /\ ops' = [ops EXCEPT ![p] = Append(@, "zero_grad")]
    /\ pc' = [pc EXCEPT ![p] = AfterUpdate(p)]
    /\ UNCHANGED <<config, epoch, step, param_groups, params, training, ckpt, writes,
                   logs, records>>

\* the statement that follows the Logger(...) call
AfterLogger(p) ==
    IF wandb[p] # "None" /\ is_main_process(p) THEN "wandb_log" ELSE AfterLog(p)

\* Logger(...): "if not ddp or dist.get_rank() == 0: print(content)"
Log(p) ==
    /\ pc[p] = "log"
    /\ IF is_main_process(p)
       THEN /\ logs' = [logs EXCEPT ![p] = @ \cup {<<epoch[p], step[p]>>}]
            /\ ops' = [ops EXCEPT ![p] = Append(@, "log")]
       ELSE UNCHANGED <<logs, ops>>
    /\ pc' = [pc EXCEPT ![p] = AfterLogger(p)]
    /\ UNCHANGED <<config, epoch, step, param_groups, grad, unscaled, params, training,
                   ckpt, writes, records>>

\* wandb.log({...})
WandbLog(p) ==
    /\ pc[p] = "wandb_log"
    /\ records' = [records EXCEPT ![p] = @ \cup {<<epoch[p], step[p]>>}]
    /\ ops' = [ops EXCEPT ![p] = Append(@, "wandb_log")]
    /\ pc' = [pc EXCEPT ![p] = AfterLog(p)]
    /\ UNCHANGED <<config, epoch, step, param_groups, grad, unscaled, params, training,
                   ckpt, writes, logs>>

\* model.eval()
Eval(p) ==
    /\ pc[p] = "eval"
    /\ training' = [training EXCEPT ![p] = FALSE]
    /\ ops' = [ops EXCEPT ![p] = Append(@, "eval")]
    /\ pc' = [pc EXCEPT ![p] = "save"]
    /\ UNCHANGED <<config, epoch, step, param_groups, grad, unscaled, params, ckpt,
                   writes, logs, records>>

\* a checkpoint write that first waits in a collective for every rank
Save_behind_barrier(p) ==
    /\ pc[p] = "save"
    /\ \A q \in Procs : pc[q] = "save"
    /\ ckpt' = [exists |-> TRUE, complete |-> TRUE, state_dict |-> params[p],
                writers |-> ckpt.writers \cup {p}]
    /\ writes' = [writes EXCEPT ![p] = @ + 1]
    /\ ops' = [ops EXCEPT ![p] = Append(@, "save")]
    /\ pc' = [pc EXCEPT ![p] = "train"]
    /\ UNCHANGED <<config, epoch, step, param_groups, grad, unscaled, params, training,
                   logs, records>>

\* a checkpoint block that serialises the state_dict as it was when the
\* micro-step began, before the optimizer update of a boundary micro-step
Save_snapshot_before_update(p) ==
    /\ pc[p] = "save"
    /\ ckpt' = [exists |-> TRUE, complete |-> TRUE,
                state_dict |-> IF at_accumulation_boundary(p)
                               THEN params[p] - 1 ELSE params[p],
                writers |-> ckpt.writers \cup {p}]
    /\ writes' = [writes EXCEPT ![p] = @ + 1]
    /\ ops' = [ops EXCEPT ![p] = Append(@, "save")]
    /\ pc' = [pc EXCEPT ![p] = "train"]
    /\ UNCHANGED <<config, epoch, step, param_groups, grad, unscaled, params, training,
                   logs, records>>

\* state_dict = model.state_dict(); torch.save(state_dict, ckp)
Save(p) ==
    /\ pc[p] = "save"
    /\ ckpt' = [exists |-> TRUE, complete |-> TRUE, state_dict |-> params[p],
                writers |-> ckpt.writers \cup {p}]
    /\ writes' = [writes EXCEPT ![p] = @ + 1]
    /\ ops' = [ops EXCEPT ![p] = Append(@, "save")]
    /\ pc' = [pc EXCEPT ![p] = "train"]
    /\ UNCHANGED <<config, epoch, step, param_groups, grad, unscaled, params, training,
                   logs, records>>

\* the checkpoint block without the switch back to training mode
Train_mode_kept(p) ==
    /\ pc[p] = "train"
    /\ ops' = [ops EXCEPT ![p] = Append(@, "train")]
    /\ pc' = [pc EXCEPT ![p] = "next"]
    /\ UNCHANGED <<config, epoch, step, param_groups, grad, unscaled, params, training,
                   ckpt, writes, logs, records>>

\* model.train()
Train(p) ==
    /\ pc[p] = "train"
    /\ training' = [training EXCEPT ![p] = TRUE]
    /\ ops' = [ops EXCEPT ![p] = Append(@, "train")]
    /\ pc' = [pc EXCEPT ![p] = "next"]
    /\ UNCHANGED <<config, epoch, step, param_groups, grad, unscaled, params, ckpt,
                   writes, logs, records>>

\* the loops advance: "for step, ... in enumerate(train_loader)" inside
\* "for epoch in range(args.epochs)"
NextBatch(p) ==
    /\ pc[p] = "next"
    /\ IF step[p] + 1 < iter_per_epoch
       THEN /\ step' = [step EXCEPT ![p] = @ + 1]
            /\ pc' = [pc EXCEPT ![p] = "set_lr"]
            /\ UNCHANGED epoch
       ELSE IF epoch[p] + 1 < args.epochs
       THEN /\ epoch' = [epoch EXCEPT ![p] = @ + 1]
            /\ step' = [step EXCEPT ![p] = 0]
            /\ pc' = [pc EXCEPT ![p] = "set_lr"]
       ELSE /\ pc' = [pc EXCEPT ![p] = "done"]
            /\ UNCHANGED <<epoch, step>>
    /\ ops' = [ops EXCEPT ![p] = <<>>]
    /\ UNCHANGED <<config, param_groups, grad, unscaled, params, training, ckpt,
                   writes, logs, records>>

Next ==
    \/ \E p \in Procs : SetLr(p)
    \/ \E p \in Procs : Forward(p)
    \/ Backward
    \/ \E p \in Procs : Unscale(p)
    \/ \E p \in Procs : Clip(p)
    \/ \E p \in Procs : ScalerStep(p)
    \/ \E p \in Procs : ScalerUpdate(p)
    \/ \E p \in Procs : ZeroGrad(p)
    \/ \E p \in Procs : Log(p)
    \/ \E p \in Procs : WandbLog(p)
    \/ \E p \in Procs : Eval(p)
    \/ \E p \in Procs : Save(p)
    \/ \E p \in Procs : Train(p)
    \/ \E p \in Procs : NextBatch(p)

Spec == Init /\ [][Next]_vars

SpecDist == InitDist /\ [][Next]_vars

\* a DDP run of one node with tracking on: one process per rank, up to MaxWorld
\* ranks, rank 0 doing all the reporting and saving on top of the common work
InitNode ==
    /\ batch = NoBatch
    /\ scaled = NoLoss
    /\ sampler = NoSampler
    /\ \E a \in DistArgsSet, n \in 1..MaxDistIter, world \in 1..MaxWorld :
          /\ a.use_wandb
          /\ InitWith(a, n, TRUE, EnvOf(TRUE, <<1, world>>))

\* every process is a running operating-system process: while some statement
\* of some process can run, one eventually does
SpecDistFair == InitNode /\ [][Next]_vars /\ WF_vars(Next)

\* ---------------------------------------------------------------- failures
\* train_epoch and __main__ have no try/except: an exception raised by a
\* statement of the micro-step leaves both loops and ends the process.

\* an exception handler that skips to the next attempt of the micro-step
Raise_and_retry(p) ==
    /\ pc[p] \notin {"next", "done", "raised"}
    /\ pc' = [pc EXCEPT ![p] = "set_lr"]
    /\ UNCHANGED <<config, epoch, step, param_groups, grad, unscaled, params, training,
                   ckpt, writes, logs, records, ops>>

\* the statement about to run raises before it has any effect
Raise(p) ==
    /\ pc[p] \notin {"next", "done", "raised"}
    /\ pc' = [pc EXCEPT ![p] = "raised"]
    /\ UNCHANGED <<config, epoch, step, param_groups, grad, unscaled, params, training,
                   ckpt, writes, logs, records, ops>>

\* torch.save(state_dict, ckp) raises after it has opened ckp for writing:
\* the file is truncated and holds an unfinished archive
RaiseInSave(p) ==
    /\ pc[p] = "save"
    /\ ckpt' = [exists |-> TRUE, complete |-> FALSE, state_dict |-> params[p],
                writers |-> ckpt.writers \cup {p}]
    /\ ops' = [ops EXCEPT ![p] = Append(@, "save")]
    /\ pc' = [pc EXCEPT ![p] = "raised"]
    /\ UNCHANGED <<config, epoch, step, param_groups, grad, unscaled, params, training,
                   writes, logs, records>>

NextFail ==
    \/ Next
    \/ \E p \in Procs : Raise(p)
    \/ \E p \in Procs : RaiseInSave(p)

\* a run of one process in which statements may raise
SpecFail == Init /\ [][NextFail]_vars

\* ------------------------------------------------------ loss normalisation
RECURSIVE SumSeq(_)
\* tensor.sum() of a flattened tensor
SumSeq(t) == IF t = <<>> THEN 0 ELSE t[1] + SumSeq(Tail(t))

\* the normalisation with the mask left out of the numerator
masked_mean_numerator_unmasked(loss, loss_mask) ==
    (SumSeq(loss) * One) \div SumSeq(loss_mask)

\* "loss = (loss * loss_mask).sum() / loss_mask.sum()", the quotient in fixed point
masked_mean(loss, loss_mask) ==
    (SumSeq([i \in DOMAIN loss |-> loss[i] * loss_mask[i]]) * One) \div SumSeq(loss_mask)

\* the loop before its first micro-step, for the specifications of single statements
IdleLoop ==
    InitWith([epochs |-> 1, accumulation_steps |-> 1, log_interval |-> 1,
              save_interval |-> 1, learning_rate |-> 5000, use_wandb |-> FALSE],
             1, FALSE, EnvOf(FALSE, <<1, 1>>))

\* a batch of per-token losses with a mask that has a valid position, and
\* its twin, which at first is the same batch
InitLoss ==
    /\ IdleLoop
    /\ \E l \in [1..MaxTokens -> 0..MaxTokenLoss], m \in [1..MaxTokens -> {0, 1}] :
          /\ SumSeq(m) >= 1
          /\ batch = [loss |-> l, padded |-> l, loss_mask |-> m, out |-> <<>>]
    /\ scaled = NoLoss
    /\ sampler = NoSampler

\* the twin gets another per-token loss at a padded (masked-out) position
Repad(i, v) ==
    /\ batch.out = <<>>
    /\ i \in DOMAIN batch.loss_mask
    /\ batch.loss_mask[i] = 0
    /\ batch.padded[i] # v
    /\ batch' = [batch EXCEPT !.padded[i] = v]
    /\ UNCHANGED <<loop, scaled, sampler>>

\* both batches are normalised as line 72 does
NormalizeLoss ==
    /\ batch.out = <<>>
    /\ batch.loss_mask # <<>>
    /\ batch' = [batch EXCEPT !.out = <<masked_mean(batch.loss, batch.loss_mask),
                                        masked_mean(batch.padded, batch.loss_mask)>>]
    /\ UNCHANGED <<loop, scaled, sampler>>

NextLoss ==
    \/ \E i \in 1..MaxTokens, v \in 0..MaxTokenLoss : Repad(i, v)
    \/ NormalizeLoss

SpecLoss == InitLoss /\ [][NextLoss]_vars

\* ------------------------------------------------------------ loss scaling
\* A positive floating-point number is a pair <<m, k>> standing for m / 2^k.
RECURSIVE Pow2(_)
Pow2(n) == IF n = 0 THEN 1 ELSE 2 * Pow2(n - 1)

RECURSIVE NormalizingShift(_, _, _)
\* the least k >= j for which n * 2^k / d has MantissaBits significant bits
NormalizingShift(n, d, j) ==
    IF (n * Pow2(j)) \div d >= Pow2(MantissaBits - 1)
    THEN j
    ELSE NormalizingShift(n, d, j + 1)

\* the floating-point quotient n / d: rounded to MantissaBits significant bits,
\* to nearest, ties to even
float_div(n, d) ==
    LET k == NormalizingShift(n, d, 0)
        q == (n * Pow2(k)) \div d
        r == (n * Pow2(k)) % d
        up == (2 * r > d) \/ (2 * r = d /\ q % 2 = 1)
    IN  <<IF up THEN q + 1 ELSE q, k>>

\* the log line printing the loss as it went into backward
item_still_scaled(x, acc) == x

\* "loss.item() * args.accumulation_steps": the product of a float32 by a small
\* integer, taken in double precision, is exact
item_times_accumulation_steps(x, acc) == <<x[1] * acc, x[2]>>

\* a loss as line 73 leaves it (a float of MantissaBits bits) and a --accumulation_steps
InitScale ==
    /\ IdleLoop
    /\ batch = NoBatch
    /\ sampler = NoSampler
    /\ \E m \in Pow2(MantissaBits - 1)..(Pow2(MantissaBits) - 1), acc \in 1..MaxScaleAcc :
          scaled = [stage |-> "summed", loss |-> <<m, 0>>, accumulation_steps |-> acc,
                    divided |-> <<m, 0>>, logged |-> <<m, 0>>]

\* "loss = loss / args.accumulation_steps"
ScaleLoss ==
    /\ scaled.stage = "summed"
    /\ scaled' = [scaled EXCEPT
                    !.stage = "divided",
                    !.divided = float_div(scaled.loss[1], scaled.accumulation_steps)]
    /\ UNCHANGED <<loop, batch, sampler>>

\* the loss argument of the log line and of the tracker record
LogLoss ==
    /\ scaled.stage = "divided"
    /\ scaled' = [scaled EXCEPT
                    !.stage = "logged",
                    !.logged = item_times_accumulation_steps(scaled.divided,
                                                             scaled.accumulation_steps)]
    /\ UNCHANGED <<loop, batch, sampler>>

NextScale ==
    \/ ScaleLoss
    \/ LogLoss

SpecScale == InitScale /\ [][NextScale]_vars

\* ----------------------------------------------------------------- sampler
\* DistributedSampler(train_ds) with its defaults: num_replicas is the world
\* size, shuffle = True with a seed shared by all ranks, drop_last = False.

\* self.num_samples = math.ceil(len(dataset) / num_replicas)
num_samples(n, replicas) == (n + replicas - 1) \div replicas

\* self.total_size = self.num_samples * self.num_replicas
total_size(n, replicas) == num_samples(n, replicas) * replicas

\* "indices += indices[:padding_size]", or the list repeated when the padding
\* is longer than the list: the permutation continued cyclically to total_size
padded_indices(indices, replicas) ==
    [i \in 1..total_size(Len(indices), replicas) |->
        indices[((i - 1) % Len(indices)) + 1]]

\* "indices = indices[self.rank:self.total_size:self.num_replicas]"
shard_of(indices, replicas, rank) ==
    [j \in 1..num_samples(Len(indices), replicas) |->
        padded_indices(indices, replicas)[rank + 1 + (j - 1) * replicas]]

\* the shuffles of a dataset of n samples
Shuffles(n) ==
    {f \in [1..n -> 0..(n - 1)] : \A i, j \in 1..n : f[i] = f[j] => i = j}

\* a dataset, a world size, and the epoch's permutation, the same on every rank
InitSampler ==
    /\ IdleLoop
    /\ batch = NoBatch
    /\ scaled = NoLoss
    /\ \E n \in 1..MaxDataset, replicas \in 1..MaxReplicas :
          \E f \in Shuffles(n) :
              sampler = [stage |-> "epoch", indices |-> f, num_replicas |-> replicas,
                         shards |-> [r \in 0..(replicas - 1) |-> <<>>],
                         iterated |-> {}]

\* the train_loader of a rank iterates its sampler
IterateSampler(rank) ==
    /\ sampler.stage = "epoch"
    /\ rank \in DOMAIN sampler.shards
    /\ rank \notin sampler.iterated
    /\ sampler' = [sampler EXCEPT
                     !.shards[rank] = shard_of(sampler.indices, sampler.num_replicas, rank),
                     !.iterated = @ \cup {rank}]
    /\ UNCHANGED <<loop, batch, scaled>>

NextSampler == \E rank \in 0..(MaxReplicas - 1) : IterateSampler(rank)

SpecSampler == InitSampler /\ [][NextSampler]_vars

\* ================================================================== claims

\* C1: every optimizer update (scaler.step) applies the gradient of exactly
\* accumulation_steps backward calls made since the previous zero_grad.
C1_UpdateAppliesExactlyAccumulationSteps ==
    \A p \in Procs : pc[p] = "step" => grad[p] = args.accumulation_steps

\* C2: at every global step reached, the learning rate of the schedule lies in
\* [base_lr/10, base_lr], and at global step 0 it equals base_lr.
C2_LrWithinBaseRate ==
    \A p \in Procs :
        pc[p] = "forward" =>
            \A i \in DOMAIN param_groups[p] :
                /\ param_groups[p][i] >= args.learning_rate \div 10
                /\ param_groups[p][i] <= args.learning_rate
                /\ (epoch[p] * iter_per_epoch + step[p] = 0
                        => param_groups[p][i] = args.learning_rate)

Quintet == <<"unscale", "clip", "step", "update", "zero_grad">>

InQuintet(o) == o \in {Quintet[i] : i \in DOMAIN Quintet}

\* C3: in a micro-step with (step + 1) % accumulation_steps = 0 the operations
\* unscale, clip, optimizer step, scaler update, zero_grad run in this order with
\* nothing between them; in any other micro-step none of the five runs.
C3_UpdateQuintetInOrder ==
    \A p \in Procs :
        LET q == SelectSeq(ops[p], InQuintet)
            boundary == (step[p] + 1) % args.accumulation_steps = 0
        IN  /\ Len(q) <= Len(Quintet)
            /\ q = SubSeq(Quintet, 1, Len(q))
            /\ \A i, j \in DOMAIN ops[p] :
                  (i < j /\ InQuintet(ops[p][i]) /\ InQuintet(ops[p][j]))
                      => \A k \in i..j : InQuintet(ops[p][k])
            /\ (~boundary) => q = <<>>
            /\ (boundary /\ pc[p] \in {"log", "wandb_log", "eval", "save", "train", "next"})
                  => q = Quintet

\* a boundary micro-step that also logged and saved has run to its end
C3_Witness ==
    \E p \in Procs :
        /\ pc[p] = "next"
        /\ (step[p] + 1) % args.accumulation_steps = 0
        /\ args.accumulation_steps > 1
        /\ SelectSeq(ops[p], InQuintet) = Quintet
        /\ \E i, j \in DOMAIN ops[p] : ops[p][i] = "log" /\ ops[p][j] = "save"

\* C4: in a DDP run only the process of global rank 0 writes the checkpoint
\* path, at each of its save intervals; a process of another rank never enters
\* the checkpoint block, so no two processes write the path.
C4_OnlyRankZeroWritesCheckpoint ==
    ddp =>
        /\ \A p \in Procs :
              env[p].RANK # 0 =>
                  /\ writes[p] = 0
                  /\ pc[p] \notin {"eval", "save", "train"}
                  /\ p \notin ckpt.writers
        /\ Cardinality(ckpt.writers) <= 1
        /\ \A p \in Procs :
              (env[p].RANK = 0 /\ pc[p] = "next"
                   /\ (step[p] + 1) % args.save_interval = 0)
                  => (p \in ckpt.writers /\ \E i \in DOMAIN ops[p] : ops[p][i] = "save")

\* rank 0 has written while a process of another rank finished a micro-step
\* that ends a save interval
C4_Witness ==
    /\ ddp
    /\ \E p, r \in Procs :
          /\ env[p].RANK = 0
          /\ writes[p] >= 1
          /\ env[r].RANK # 0
          /\ pc[r] = "next"
          /\ (step[r] + 1) % args.save_interval = 0

\* C5: counting micro-steps over the whole run, across epoch boundaries, the
\* designated process has written one checkpoint per save_interval micro-steps.
C5_CheckpointEverySaveInterval ==
    \A p \in Procs :
        (((~ddp) \/ env[p].RANK = 0) /\ pc[p] = "next")
            => writes[p] = (epoch[p] * iter_per_epoch + step[p] + 1) \div args.save_interval

\* C6: the model is in training mode at every forward and backward pass and in
\* evaluation mode at every checkpoint serialization; the write is preceded by
\* the switch to evaluation mode and followed by the switch back.
C6_ModeExcludesWriteFromForwardBackward ==
    \A p \in Procs :
        /\ pc[p] \in {"forward", "backward"} => training[p]
        /\ pc[p] = "save" => ~training[p]
        /\ \A i \in DOMAIN ops[p] :
              ops[p][i] = "save" =>
                  /\ i > 1 /\ ops[p][i - 1] = "eval"
                  /\ i < Len(ops[p]) => ops[p][i + 1] = "train"
                  /\ \A j \in DOMAIN ops[p] :
                        ops[p][j] \in {"forward", "backward"} => j < i - 1
        /\ (pc[p] = "next" /\ \E i \in DOMAIN ops[p] : ops[p][i] = "save")
              => (ops[p][Len(ops[p])] = "train" /\ training[p])

\* a forward pass is about to run after a checkpoint was written
C6_Witness ==
    \E p \in Procs : pc[p] = "forward" /\ writes[p] >= 1 /\ training[p]

\* the micro-steps <<epoch, step>> selected by log_interval that the process
\* has carried past the statements in `passed`
SelectedMicroSteps(p, passed) ==
    {m \in (0..epoch[p]) \X (0..(iter_per_epoch - 1)) :
        /\ m[2] % args.log_interval = 0
        /\ \/ m[1] < epoch[p]
           \/ m[2] < step[p]
           \/ (m[2] = step[p] /\ pc[p] \in passed)}

\* C8: a log line, and a tracker record when tracking is on, is emitted at
\* exactly the micro-steps with step % log_interval = 0 and only by the
\* reporting process (rank 0 under DDP, else the sole process); a process of
\* another rank never emits a line or a record.
C8_OnlyReportingProcessLogs ==
    \A p \in Procs :
        IF ddp /\ env[p].RANK # 0
        THEN logs[p] = {} /\ records[p] = {}
        ELSE /\ logs[p] = SelectedMicroSteps(p,
                    {"wandb_log", "eval", "save", "train", "next", "done"})
             /\ records[p] =
                    IF args.use_wandb
                    THEN SelectedMicroSteps(p, {"eval", "save", "train", "next", "done"})
                    ELSE {}

\* a two-process DDP run with tracking has ended: rank 0 logged, and skipped a
\* micro-step that log_interval does not select
C8_Witness ==
    /\ ddp
    /\ args.use_wandb
    /\ args.log_interval = 2
    /\ iter_per_epoch = 2
    /\ \A p \in Procs : pc[p] = "done"
    /\ \E p, r \in Procs :
          /\ env[p].RANK = 0
          /\ env[r].RANK # 0
          /\ logs[p] = {<<0, 0>>}
          /\ records[p] = {<<0, 0>>}

\* C9: the learning rate written by successive micro-steps never increases
\* (also across an epoch boundary), never falls below base_lr/10, and at every
\* forward pass each parameter group holds the schedule's value for the
\* current global step.
C9_LrNonIncreasingAboveFloor ==
    /\ [](\A p \in Procs : \A i \in DOMAIN param_groups[p] :
            /\ param_groups[p][i] >= args.learning_rate \div 10
            /\ pc[p] = "forward" =>
                   param_groups[p][i] =
                       get_lr(epoch[p] * iter_per_epoch + step[p],
                              args.epochs * iter_per_epoch, args.learning_rate))
    /\ [][\A p \in Procs : \A i \in DOMAIN param_groups[p] :
            (epoch[p] * iter_per_epoch + step[p] > 0)
                => param_groups'[p][i] <= param_groups[p][i]]_vars

\* the first forward pass of the second epoch runs at a rate below the one of
\* the last step of the first epoch
C9_Witness ==
    \E p \in Procs :
        /\ pc[p] = "forward"
        /\ epoch[p] = 1
        /\ step[p] = 0
        /\ iter_per_epoch > 1
        /\ \A i \in DOMAIN param_groups[p] :
              param_groups[p][i] <
                  get_lr(iter_per_epoch - 1, args.epochs * iter_per_epoch,
                         args.learning_rate)

\* C10: the model parameters change only in the optimizer step of an
\* accumulation-boundary micro-step; every other statement leaves them as
\* they are.
C10_ParamsChangeOnlyInOptimizerStep ==
    [][\A p \in Procs :
          params'[p] # params[p] =>
              /\ pc[p] = "step"
              /\ pc'[p] = "update"
              /\ (step[p] + 1) % args.accumulation_steps = 0]_vars

\* a run that updated the parameters, logged and wrote a checkpoint has ended
C10_Witness ==
    \E p \in Procs :
        /\ pc[p] = "done"
        /\ params[p] >= 1
        /\ writes[p] >= 1
        /\ logs[p] # {}

\* C7: the normalised loss sum(loss * loss_mask) / sum(loss_mask) is the
\* same for two batches that agree wherever the mask is 1 and differ only
\* where it is 0, for every mask with a valid position.
C7_NormalizedLossIgnoresPadding ==
    (/\ batch.out # <<>>
     /\ \A i \in DOMAIN batch.loss_mask :
           batch.loss_mask[i] = 1 => batch.loss[i] = batch.padded[i])
        => batch.out[1] = batch.out[2]

\* two batches that differ at a padded position were normalised to a non-zero loss
C7_Witness ==
    /\ batch.out # <<>>
    /\ batch.out[1] > 0
    /\ \E i \in DOMAIN batch.loss_mask :
          batch.loss_mask[i] = 0 /\ batch.loss[i] # batch.padded[i]
    /\ \E i \in DOMAIN batch.loss_mask : batch.loss_mask[i] = 1

\* the floats <<m, k>> and <<n, j>> are the same number
SameNumber(a, b) == a[1] * Pow2(b[2]) = b[1] * Pow2(a[2])

\* C11 as stated: the loss of the log line equals the loss as it was before the
\* division by accumulation_steps, for every accumulation_steps >= 1.
C11_LoggedLossIsUnscaledLoss ==
    scaled.stage = "logged" => SameNumber(scaled.logged, scaled.loss)

\* C11 amended: the loss of the log line equals the loss before the division
\* when accumulation_steps is a power of two, and otherwise differs from it by
\* at most the rounding error of the one division (relative error 2^-MantissaBits).
C11_LoggedLossWithinOneRounding ==
    scaled.stage = "logged" =>
        LET x == scaled.loss[1] * Pow2(scaled.logged[2])
            y == scaled.logged[1]
            d == IF x >= y THEN x - y ELSE y - x
        IN  /\ d * Pow2(MantissaBits) <= x
            /\ (\E j \in 0..MaxScaleAcc : scaled.accumulation_steps = Pow2(j)) => d = 0

\* a loss was divided by 3, rounded, and logged
C11_Witness ==
    /\ scaled.stage = "logged"
    /\ scaled.accumulation_steps = 3
    /\ ~SameNumber(scaled.logged, scaled.loss)

\* the samples of a shard
SamplesOf(shard) == {shard[i] : i \in DOMAIN shard}

\* C12: within one epoch the shards of different ranks are pairwise disjoint:
\* no sample is fed to two processes, for every dataset size and world size.
C12_ShardsPairwiseDisjoint ==
    sampler.stage = "epoch" =>
        \A r, q \in sampler.iterated :
            r # q => SamplesOf(sampler.shards[r]) \cap SamplesOf(sampler.shards[q]) = {}

\* C13: once an operation of a micro-step has raised, the process performs
\* no later forward pass, optimizer update, log line or checkpoint write, and
\* no micro-step is run a second time.
C13_RaiseEndsTheProcess ==
    /\ [](\A p \in Procs :
            Cardinality({i \in DOMAIN ops[p] : ops[p][i] = "forward"}) <= 1)
    /\ [][\A p \in Procs :
            pc[p] = "raised" =>
                /\ pc'[p] = "raised"
                /\ ops'[p] = ops[p]
                /\ params'[p] = params[p]
                /\ grad'[p] = grad[p]
                /\ writes'[p] = writes[p]
                /\ logs'[p] = logs[p]
                /\ records'[p] = records[p]
                /\ epoch'[p] = epoch[p]
                /\ step'[p] = step[p]
                /\ ckpt' = ckpt]_vars

\* a process has raised after an optimizer update, with micro-steps left to run
C13_Witness ==
    \E p \in Procs :
        /\ pc[p] = "raised"
        /\ params[p] >= 1
        /\ epoch[p] * iter_per_epoch + step[p] + 1 < args.epochs * iter_per_epoch

\* C14: in a DDP run with tracking enabled exactly one process, the one of
\* global rank 0, initialises the tracker, whatever the layout of processes over
\* nodes; and every process that logs to the tracker has initialised it.
C14_TrackerInitialisedOnlyByRankZero ==
    /\ (ddp /\ args.use_wandb) =>
          /\ Cardinality({p \in Procs : wandb[p] # "None"}) = 1
          /\ \A p \in Procs : wandb[p] # "None" <=> env[p].RANK = 0
    /\ \A p \in Procs : records[p] # {} => wandb[p] # "None"

\* C15: when the run terminates normally no accumulated gradient is left
\* unapplied: every backward call was followed by an optimizer update.
C15_NoGradientLeftAtTermination ==
    \A p \in Procs : pc[p] = "done" => grad[p] = 0

\* C16: when the run terminates normally the checkpoint file holds the model
\* parameters as they are after the last optimizer update of the run.
C16_CheckpointHoldsFinalParameters ==
    \A p \in Procs :
        (pc[p] = "done" /\ params[p] >= 1 /\ ((~ddp) \/ env[p].RANK = 0))
            => (ckpt.exists /\ ckpt.complete /\ ckpt.state_dict = params[p])

\* C17: every save writes the one path, and once a save has completed the file
\* at that path holds a complete snapshot of some save, also when the process
\* fails in the middle of a later save.
C17_FileAlwaysHoldsCompleteSnapshot ==
    (\E p \in Procs : writes[p] >= 1) =>
        /\ ckpt.exists
        /\ ckpt.complete

\* C18: in a micro-step where the accumulation boundary and the save interval
\* both fire the optimizer update precedes the checkpoint write, so the
\* snapshot holds the post-update parameters; a snapshot written at any other
\* micro-step equals the parameters after the most recent update.
C18_SnapshotHoldsParametersAfterLatestUpdate ==
    \A p \in Procs :
        pc[p] = "train" =>
            /\ ckpt.state_dict = params[p]
            /\ ((step[p] + 1) % args.accumulation_steps = 0) =>
                  \E i, j \in DOMAIN ops[p] :
                      i < j /\ ops[p][i] = "step" /\ ops[p][j] = "save"
            /\ ((step[p] + 1) % args.accumulation_steps # 0) =>
                  \A i \in DOMAIN ops[p] : ops[p][i] # "step"

\* a checkpoint was written in a micro-step that also updated the parameters,
\* after an earlier checkpoint of older parameters
C18_Witness ==
    \E p \in Procs :
        /\ pc[p] = "train"
        /\ (step[p] + 1) % args.accumulation_steps = 0
        /\ args.accumulation_steps > 1
        /\ params[p] >= 1
        /\ ckpt.state_dict = params[p]

\* backward calls a process has made, by its place in the loops
BackwardCalls(p) ==
    epoch[p] * iter_per_epoch + step[p]
        + (IF pc[p] \in {"set_lr", "forward", "backward"} THEN 0 ELSE 1)

\* C19: all ranks make the same number of backward calls and optimizer
\* updates although only rank 0 logs and writes checkpoints; no process waits
\* for ever in a gradient synchronisation, and every process runs all
\* epochs * iter_per_epoch micro-steps and terminates.
C19_AllRanksInStepAndTerminate ==
    /\ [](\A p, q \in Procs :
            /\ BackwardCalls(p) = BackwardCalls(q)
            /\ (pc[p] = "done" /\ pc[q] = "done") => params[p] = params[q]
            /\ pc[p] = "done" =>
                  /\ epoch[p] = args.epochs - 1
                  /\ step[p] = iter_per_epoch - 1
                  /\ params[p] = args.epochs * (iter_per_epoch \div args.accumulation_steps))
    /\ <>(\A p \in Procs : pc[p] = "done")

\* a two-process DDP run has ended: both ranks updated the parameters, only
\* rank 0 logged and wrote the checkpoint
C19_Witness ==
    /\ ddp
    /\ Cardinality(Procs) = 2
    /\ \A p \in Procs : pc[p] = "done" /\ params[p] >= 1
    /\ \E p \in Procs : env[p].RANK = 0 /\ writes[p] >= 1 /\ logs[p] # {}
    /\ \E p \in Procs : env[p].RANK # 0 /\ writes[p] = 0 /\ logs[p] = {}

====
